---- MODULE Spec2Model ----
(***************************************************************************)
(* namedargs: the tokenizer, the recursive-descent parser, the argument    *)
(* table and the typed binder of include/namedargs/parser.hpp, as a state  *)
(* machine.  One behaviour is one call of parse_args<T>(text).             *)
(*                                                                         *)
(* A char is its byte value (0..255).  A std::string_view is a record      *)
(* [off, len]: the offset of its first char in the text and its size.  A   *)
(* std::span<Token> over tokens_ is the index of its first token.  A       *)
(* std::int64_t is three base-10^7 limbs <<h, m, l>> (TLC's integers are   *)
(* 32 bits wide).                                                          *)
(***************************************************************************)
EXTENDS Integers, Sequences, FiniteSets, TLC

VARIABLES
  input,   \* ArgParser::input_
  pc,      \* where parse_args<T> is: the next step to run, "done" or "error"
  sv,      \* tokenize's local sv: the text still to be read
  tokens,  \* ArgParser::tokens_
  toks,    \* the parser's span<Token>: how many tokens it has consumed
  ident,   \* parse_assign's local ident
  arg,     \* parse_assign's local arg
  args,    \* ArgParser::args_
  err,     \* what was thrown ("" when nothing)
  out,     \* the caller's output variable of the last assign_or
  call     \* the arguments of the last assign_or

vars == <<input, pc, sv, tokens, toks, ident, arg, args, err, out, call>>

\* ------------------------------------------------------------------ bounds

\* Longest text of the exhaustive part of the inputs.
MaxLen == 4
\* Most assignments in a text of the list part of the inputs.
MaxArgs == 3

\* ------------------------------------------------------------ characters

Char == 0..255

isspace(c) == (9 <= c /\ c <= 13) \/ c = 32

isdigit(c) == 48 <= c /\ c <= 57

isupper(c) == 65 <= c /\ c <= 90

islower(c) == 97 <= c /\ c <= 122

isident1(c) == isupper(c) \/ islower(c) \/ c = 95

isident2(c) == isident1(c) \/ isdigit(c)

ispunct(c) ==
  \/ (33 <= c /\ c <= 47)
  \/ (58 <= c /\ c <= 64)
  \/ (91 <= c /\ c <= 96)
  \/ (123 <= c /\ c <= 126)

\* The predicates as the sets find_if_not is handed.
SpaceChars == {c \in Char : isspace(c)}
Ident2Chars == {c \in Char : isident2(c)}

\* ---------------------------------------------------------- string_view

\* std::string_view::npos, size_t(-1), cut to the integers at hand: larger than
\* every size.
npos == 2147483647

Min(a, b) == IF a < b THEN a ELSE b

View(off, len) == [off |-> off, len |-> len]

\* sv[i], i from 0
At(inp, v, i) == inp[v.off + i + 1]

front(inp, v) == At(inp, v, 0)

empty(v) == v.len = 0

\* The chars a view shows.
Chars(inp, v) == SubSeq(inp, v.off + 1, v.off + v.len)

\* sv.substr(pos, count) throws std::out_of_range when pos > size()
substr_throws(v, pos) == pos > v.len

substr(v, pos, count) == View(v.off + pos, Min(count, v.len - pos))

\* sv.find_first_of(ch, pos)
RECURSIVE find_first_of(_, _, _, _)
find_first_of(inp, v, ch, pos) ==
  IF pos >= v.len THEN npos
  ELSE IF At(inp, v, pos) = ch THEN pos
  ELSE find_first_of(inp, v, ch, pos + 1)

RECURSIVE find_if_not(_, _, _, _)
find_if_not(inp, v, pred, pos) ==
  IF pos < v.len
  THEN IF At(inp, v, pos) \notin pred THEN pos
       ELSE find_if_not(inp, v, pred, pos + 1)
  ELSE npos

\* a.compare(b) < 0, and a < b: chars compare as unsigned bytes
RECURSIVE Less(_, _)
Less(a, b) ==
  IF b = <<>> THEN FALSE
  ELSE IF a = <<>> THEN TRUE
  ELSE IF Head(a) # Head(b) THEN Head(a) < Head(b)
  ELSE Less(Tail(a), Tail(b))

\* ------------------------------------------------------------- std::int64_t

Limb == 10^7

Int64Max == <<92233, 7203685, 4775807>>

Zero64 == <<0, 0, 0>>

\* a <= b on limbs
Leq64(a, b) ==
  \/ a[1] < b[1]
  \/ a[1] = b[1] /\ a[2] < b[2]
  \/ a[1] = b[1] /\ a[2] = b[2] /\ a[3] <= b[3]

\* 10 * num + d, not yet reduced to 64 bits: the top limb may exceed Int64Max's
MulAdd10(num, d) ==
  LET l == num[3] * 10 + d
      m == num[2] * 10 + (l \div Limb)
      h == num[1] * 10 + (m \div Limb)
  IN <<h, m % Limb, l % Limb>>

\* from_chars(first, last, num): first and last are offsets into the text.
\* [num, ptr, ub]: ub when some 10 * num + digit left the range of
\* std::int64_t, which is undefined behaviour (signed overflow); num is then
\* meaningless.
RECURSIVE from_chars(_, _, _, _, _)
from_chars(inp, first, last, num, ub) ==
  IF first # last /\ isdigit(inp[first + 1])
  THEN LET next == MulAdd10(num, inp[first + 1] - 48)
       IN IF ~ub /\ Leq64(next, Int64Max)
          THEN from_chars(inp, first + 1, last, next, FALSE)
          ELSE from_chars(inp, first + 1, last, Zero64, TRUE)
  ELSE [num |-> num, ptr |-> first, ub |-> ub]

\* What a build may leave in num after the overflow.
UBValues == {Zero64, Int64Max}

\* ------------------------------------------------------------------- tokens

Token(kind, v, num) == [kind |-> kind, sv |-> v, num |-> num]

\* What a tokenize_* call does: the tokens pushed, the view returned, and what
\* it threw ("" when it returned).
Step(toksq, v, thrown) == [tokens |-> toksq, sv |-> v, throw |-> thrown]

skip_whitespaces(inp, toksq, v) ==
  LET pos == find_if_not(inp, v, SpaceChars, 1)
  IN IF substr_throws(v, pos)
     THEN Step(toksq, v, "std::out_of_range")
     ELSE Step(toksq, substr(v, pos, npos), "")

\* With "undefined behaviour" thrown the call's outcome is any the build can
\* produce: TokenizeNumber draws them.
tokenize_number(inp, toksq, v) ==
  LET r == from_chars(inp, v.off, v.off + v.len, Zero64, FALSE)
      size == r.ptr - v.off
  IN Step(Append(toksq, Token("num", substr(v, 0, size), r.num)),
          substr(v, size, npos),
          IF r.ub THEN "undefined behaviour" ELSE "")

\* tokenize_string_literal without its throw: an unclosed literal runs to the
\* end of the text
tokenize_string_literal_NoThrow(inp, toksq, v) ==
  LET pos == Min(find_first_of(inp, v, 39, 1), v.len)
  IN Step(Append(toksq, Token("str", substr(v, 1, pos - 1), Zero64)),
          substr(v, Min(pos + 1, v.len), npos), "")

\* tokenize_string_literal that goes on at the closing quote, not after it
tokenize_string_literal_KeepQuote(inp, toksq, v) ==
  LET pos == find_first_of(inp, v, 39, 1)
  IN IF pos = npos
     THEN Step(toksq, v, "unclosed string literal")
     ELSE Step(Append(toksq, Token("str", substr(v, 1, pos - 1), Zero64)),
               substr(v, pos, npos), "")

tokenize_string_literal(inp, toksq, v) ==
  LET pos == find_first_of(inp, v, 39, 1)
  IN IF pos = npos
     THEN Step(toksq, v, "unclosed string literal")
     ELSE Step(Append(toksq, Token("str", substr(v, 1, pos - 1), Zero64)),
               substr(v, pos + 1, npos), "")

tokenize_identifier(inp, toksq, v) ==
  LET pos == find_if_not(inp, v, Ident2Chars, 1)
      pushed == Append(toksq, Token("ident", substr(v, 0, pos), Zero64))
  IN IF substr_throws(v, pos)
     THEN Step(pushed, v, "std::out_of_range")
     ELSE Step(pushed, substr(v, pos, npos), "")

tokenize_punct(inp, toksq, v) ==
  Step(Append(toksq, Token("punct", substr(v, 0, 1), Zero64)),
       substr(v, 1, npos), "")

\* One turn of tokenize()'s loop, on the text v that is left
tokenize_turn(inp, toksq, v) ==
  LET c == front(inp, v)
  IN IF isspace(c) THEN skip_whitespaces(inp, toksq, v)
     ELSE IF isdigit(c) THEN tokenize_number(inp, toksq, v)
     ELSE IF c = 39 THEN tokenize_string_literal(inp, toksq, v)
     ELSE IF isident1(c) THEN tokenize_identifier(inp, toksq, v)
     ELSE IF ispunct(c) THEN tokenize_punct(inp, toksq, v)
     ELSE Step(toksq, v, "unexpected character")

\* The loop of tokenize() from the text v on, run to its end
RECURSIVE tokenize_from(_, _, _)
tokenize_from(inp, toksq, v) ==
  IF empty(v) THEN Step(Append(toksq, Token("eof", v, Zero64)), v, "")
  ELSE LET r == tokenize_turn(inp, toksq, v)
       IN IF r.throw # "" THEN r ELSE tokenize_from(inp, r.tokens, r.sv)

tokenize(inp) == tokenize_from(inp, <<>>, View(0, Len(inp)))

\* ------------------------------------------------------------------- parser

\* toks.front(): a token of tokens_, or past its end (undefined behaviour)
InBounds(tokensq, t) == t < Len(tokensq)

FrontTok(tokensq, t) == tokensq[t + 1]

\* consume that never finds the kind
consume_Never(kind, tokensq, t) == [toks |-> t, consumed |-> FALSE]

\* [toks, consumed]
consume(kind, tokensq, t) ==
  IF FrontTok(tokensq, t).kind = kind
  THEN [toks |-> t + 1, consumed |-> TRUE]
  ELSE [toks |-> t, consumed |-> FALSE]

\* consume_punct that also takes the eof token for the punctuator
consume_punct_OrEof(inp, punct, tokensq, t) ==
  IF \/ FrontTok(tokensq, t).kind = "eof"
     \/ /\ FrontTok(tokensq, t).kind = "punct"
        /\ Chars(inp, FrontTok(tokensq, t).sv) = punct
  THEN [toks |-> t + 1, consumed |-> TRUE]
  ELSE [toks |-> t, consumed |-> FALSE]

consume_punct(inp, punct, tokensq, t) ==
  IF /\ FrontTok(tokensq, t).kind = "punct"
     /\ Chars(inp, FrontTok(tokensq, t).sv) = punct
  THEN [toks |-> t + 1, consumed |-> TRUE]
  ELSE [toks |-> t, consumed |-> FALSE]

\* [toks, throw]
expect(kind, tokensq, t) ==
  IF FrontTok(tokensq, t).kind = kind
  THEN [toks |-> t + 1, throw |-> ""]
  ELSE [toks |-> t, throw |-> "unexpected token in namedargs::expect"]

\* expect_punct that takes any punctuator for the one expected
expect_punct_AnyPunct(inp, punct, tokensq, t) ==
  IF FrontTok(tokensq, t).kind = "punct"
  THEN [toks |-> t + 1, throw |-> ""]
  ELSE [toks |-> t, throw |-> "unexpected token in namedargs::expect_punct"]

expect_punct(inp, punct, tokensq, t) ==
  IF /\ FrontTok(tokensq, t).kind = "punct"
     /\ Chars(inp, FrontTok(tokensq, t).sv) = punct
  THEN [toks |-> t + 1, throw |-> ""]
  ELSE [toks |-> t, throw |-> "unexpected token in namedargs::expect_punct"]

\* ArgType: index 0 holds num, index 1 holds sv
IntArg(num) == [index |-> 0, num |-> num, sv |-> View(0, 0)]

StrArg(v) == [index |-> 1, num |-> Zero64, sv |-> v]

Pair(first, second) == [first |-> first, second |-> second]

\* find(v, key): the index (from 1) of the first pair with that key, or
\* Len(v) + 1 for v.end()
RECURSIVE find_from(_, _, _, _)
find_from(inp, argsq, key, i) ==
  IF i > Len(argsq) THEN i
  ELSE IF Chars(inp, argsq[i].first) = key THEN i
  ELSE find_from(inp, argsq, key, i + 1)

find(inp, argsq, key) == find_from(inp, argsq, key, 1)

\* parse_ident without its find: a key may come again
parse_ident_NoFind(inp, tokensq, t, argsq) ==
  LET tok == FrontTok(tokensq, t)
  IN IF tok.kind = "ident"
     THEN [toks |-> t + 1, ident |-> tok.sv, throw |-> ""]
     ELSE [toks |-> t, ident |-> tok.sv,
           throw |-> "unexpected token; expecting TokenKind::ident"]

\* [toks, ident, throw]
parse_ident(inp, tokensq, t, argsq) ==
  LET tok == FrontTok(tokensq, t)
  IN IF tok.kind = "ident"
     THEN IF find(inp, argsq, Chars(inp, tok.sv)) = Len(argsq) + 1
          THEN [toks |-> t + 1, ident |-> tok.sv, throw |-> ""]
          ELSE [toks |-> t, ident |-> tok.sv,
                throw |-> "argument already exists"]
     ELSE [toks |-> t, ident |-> tok.sv,
           throw |-> "unexpected token; expecting TokenKind::ident"]

\* [toks, arg, throw]
parse_primary(tokensq, t) ==
  LET tok == FrontTok(tokensq, t)
  IN CASE tok.kind = "str" ->
            [toks |-> t + 1, arg |-> StrArg(tok.sv), throw |-> ""]
       [] tok.kind = "num" ->
            [toks |-> t + 1, arg |-> IntArg(tok.num), throw |-> ""]
       [] OTHER ->
            [toks |-> t, arg |-> IntArg(Zero64), throw |->
              "unexpected token; expecting TokenKind::str or TokenKind::num"]

\* What a parse_* call does: args_ after it, the span returned, what it threw.
Parsed(argsq, t, thrown) == [args |-> argsq, toks |-> t, throw |-> thrown]

parse_assign(inp, tokensq, t, argsq) ==
  LET i == parse_ident(inp, tokensq, t, argsq)
      e == expect_punct(inp, <<61>>, tokensq, i.toks)
      p == parse_primary(tokensq, e.toks)
  IN IF i.throw # "" THEN Parsed(argsq, t, i.throw)
     ELSE IF e.throw # "" THEN Parsed(argsq, i.toks, e.throw)
     ELSE IF p.throw # "" THEN Parsed(argsq, e.toks, p.throw)
     ELSE Parsed(Append(argsq, Pair(i.ident, p.arg)), p.toks, "")

\* The loop of parse_stmt, after an assign
RECURSIVE parse_stmt_loop(_, _, _, _)
parse_stmt_loop(inp, tokensq, t, argsq) ==
  LET c == consume_punct(inp, <<44>>, tokensq, t)
      a == parse_assign(inp, tokensq, c.toks, argsq)
  IN IF ~c.consumed THEN Parsed(argsq, t, "")
     ELSE IF a.throw # "" THEN a
     ELSE parse_stmt_loop(inp, tokensq, a.toks, a.args)

parse_stmt(inp, tokensq, t, argsq) ==
  LET a == parse_assign(inp, tokensq, t, argsq)
  IN IF a.throw # "" THEN a
     ELSE parse_stmt_loop(inp, tokensq, a.toks, a.args)

parse_args(inp, tokensq, t, argsq) ==
  LET c == consume("eof", tokensq, t)
      s == parse_stmt(inp, tokensq, t, argsq)
      e == expect("eof", tokensq, s.toks)
  IN IF c.consumed THEN Parsed(argsq, c.toks, "")
     ELSE IF s.throw # "" THEN s
     ELSE Parsed(s.args, e.toks, e.throw)

parse(inp, tokensq) == parse_args(inp, tokensq, 0, <<>>)

\* -------------------------------------------------------- table and binder

\* std::sort(args_.begin(), args_.end(), by x.first.compare(y.first) < 0):
\* x put before the first pair of the sorted v it is smaller than
RECURSIVE Insert(_, _, _)
Insert(inp, v, x) ==
  IF v = <<>> THEN <<x>>
  ELSE IF Less(Chars(inp, x.first), Chars(inp, Head(v).first))
       THEN <<x>> \o v
       ELSE <<Head(v)>> \o Insert(inp, Tail(v), x)

\* A sort that leaves the vector as it is
sort_Unsorted(inp, v) == v

RECURSIVE sort(_, _)
sort(inp, v) ==
  IF v = <<>> THEN <<>>
  ELSE Insert(inp, sort(inp, SubSeq(v, 1, Len(v) - 1)), v[Len(v)])

\* A lower_bound that never looks: the first of the range
lower_bound_First(inp, v, key, first, len) == first

\* std::ranges::lower_bound over [first, first + len), indices from 1
RECURSIVE lower_bound(_, _, _, _, _)
lower_bound(inp, v, key, first, len) ==
  IF len = 0 THEN first
  ELSE LET half == len \div 2
           mid == first + half
       IN IF Less(Chars(inp, v[mid].first), key)
          THEN lower_bound(inp, v, key, mid + 1, len - half - 1)
          ELSE lower_bound(inp, v, key, first, half)

\* binary_search without its test of key < it->first: the lower bound itself
binary_search_NoTest(inp, v, key) == lower_bound(inp, v, key, 1, Len(v))

\* binary_search(v, key): an index (from 1), or Len(v) + 1 for v.end()
binary_search(inp, v, key) ==
  LET it == lower_bound(inp, v, key, 1, Len(v))
  IN IF it = Len(v) + 1 \/ Less(key, Chars(inp, v[it].first))
     THEN Len(v) + 1
     ELSE it

\* The output types T: what each is assignable from.
Types == {"int64_t", "int", "string_view", "variant"}

AssignableFromInt(T) == T \in {"int64_t", "int", "variant"}

AssignableFromStr(T) == T \in {"string_view", "variant"}

\* x * 10 + d modulo 2^32, x and the result as two 16-bit halves <<hi, lo>>
MulAdd10_32(x, d) ==
  LET lo == x[2] * 10 + d
  IN <<(x[1] * 10 + (lo \div 65536)) % 65536, lo % 65536>>

\* The decimal digits of num, all 21 of them, most significant first
Digits64(num) ==
  [i \in 1..21 |-> (num[((i - 1) \div 7) + 1] \div (10 ^ (6 - ((i - 1) % 7)))) % 10]

RECURSIVE Mod32(_, _, _)
Mod32(ds, i, x) ==
  IF i > Len(ds) THEN x ELSE Mod32(ds, i + 1, MulAdd10_32(x, ds[i]))

\* static_cast<int>(num): num modulo 2^32, as a signed 32-bit integer
ToInt(num) ==
  LET x == Mod32(Digits64(num), 1, <<0, 0>>)
  IN IF x[1] >= 32768 THEN (x[1] - 65536) * 65536 + x[2]
     ELSE x[1] * 65536 + x[2]

\* out after out = std::get<0>(v)
AssignInt(T, num) ==
  CASE T = "int64_t" -> [type |-> T, val |-> num]
    [] T = "int" -> [type |-> T, val |-> ToInt(num)]
    [] T = "variant" -> [type |-> T, val |-> <<0, num>>]

\* out after out = std::get<1>(v)
AssignStr(inp, T, v) ==
  CASE T = "string_view" -> [type |-> T, val |-> Chars(inp, v)]
    [] T = "variant" -> [type |-> T, val |-> <<1, Chars(inp, v)>>]

\* assign_or without its throw: a value of the wrong kind gives the default
assign_or_NoThrow(inp, argsq, old, T, key, value) ==
  LET it == binary_search(inp, argsq, key)
      v == argsq[it].second
  IN IF it = Len(argsq) + 1 THEN [out |-> value, throw |-> ""]
     ELSE IF v.index = 0 /\ AssignableFromInt(T)
          THEN [out |-> AssignInt(T, v.num), throw |-> ""]
     ELSE IF v.index # 0 /\ AssignableFromStr(T)
          THEN [out |-> AssignStr(inp, T, v.sv), throw |-> ""]
     ELSE [out |-> value, throw |-> ""]

\* assign_or(out, key, value): [out, throw]; value is a T already
assign_or(inp, argsq, old, T, key, value) ==
  LET it == binary_search(inp, argsq, key)
      v == argsq[it].second
  IN IF it = Len(argsq) + 1 THEN [out |-> value, throw |-> ""]
     ELSE IF v.index = 0 /\ AssignableFromInt(T)
          THEN [out |-> AssignInt(T, v.num), throw |-> ""]
     ELSE IF v.index # 0 /\ AssignableFromStr(T)
          THEN [out |-> AssignStr(inp, T, v.sv), throw |-> ""]
     ELSE [out |-> old, throw |-> "value is not assignable"]

\* execute(): args_ when it returns, and what it threw
execute(inp) ==
  LET t == tokenize(inp)
      p == parse(inp, t.tokens)
  IN IF t.throw # "" THEN [args |-> <<>>, throw |-> t.throw]
     ELSE IF p.throw # "" THEN [args |-> p.args, throw |-> p.throw]
     ELSE [args |-> sort(inp, p.args), throw |-> ""]

\* ------------------------------------------------------------------- inputs

\* Texts of up to MaxLen chars over: SOH (no class), space, quote, comma,
\* '1', '=', 'a'.
Alphabet == {1, 32, 39, 44, 49, 61, 97}

ShortInputs == UNION {[1..n -> Alphabet] : n \in 0..MaxLen}

\* a=1   b='a, ='   ab = 42   a=''   _z9=007
Assigns ==
  { <<97, 61, 49>>,
    <<98, 61, 39, 97, 44, 32, 61, 39>>,
    <<97, 98, 32, 61, 32, 52, 50>>,
    <<97, 61, 39, 39>>,
    <<95, 122, 57, 61, 48, 48, 55>> }

\* nothing, or a tab and a space
Leads == {<<>>, <<9, 32>>}

\* nothing; a space; a comma; a comma and a space; ",b"; " b"; ",b="
Trails ==
  { <<>>, <<32>>, <<44>>, <<44, 32>>, <<44, 98>>, <<32, 98>>, <<44, 98, 61>> }

RECURSIVE Join(_)
Join(list) ==
  IF list = <<>> THEN <<>>
  ELSE IF Len(list) = 1 THEN list[1]
  ELSE list[1] \o <<44>> \o Join(Tail(list))

\* Up to MaxArgs assignments with commas between, after a lead, before a trail.
Lists == UNION {[1..n -> Assigns] : n \in 0..MaxArgs}

ListInputs ==
  {lead \o Join(list) \o trail : lead \in Leads, trail \in Trails, list \in Lists}

\* Numbers at the edges of int and of std::int64_t, and chars of no class:
\* n=2147483647  n=4294967298  m=9223372036854775807  m=9223372036854775808
\* a=1,m=99999999999999999999,a=2  NUL  a=DEL  'a' 0xC8
\* and a key that comes again with no '=' after it: a=1,a,
EdgeInputs ==
  { <<0>>, <<97, 61, 127>>, <<39, 97, 39, 32, 200>>,
    <<97, 61, 49, 44, 97, 44>>,
    <<110, 61, 50, 49, 52, 55, 52, 56, 51, 54, 52, 55>>,
    <<110, 61, 52, 50, 57, 52, 57, 54, 55, 50, 57, 56>>,
    <<109, 61, 57, 50, 50, 51, 51, 55, 50, 48, 51, 54, 56, 53, 52, 55, 55,
      53, 56, 48, 55>>,
    <<109, 61, 57, 50, 50, 51, 51, 55, 50, 48, 51, 54, 56, 53, 52, 55, 55,
      53, 56, 48, 56>>,
    <<97, 61, 49, 44, 109, 61, 57, 57, 57, 57, 57, 57, 57, 57, 57, 57, 57,
      57, 57, 57, 57, 57, 57, 57, 57, 57, 44, 97, 61, 50>> }

Inputs == ShortInputs \cup ListInputs \cup EdgeInputs

\* The keys assign_or is called with: "", a, ab, abc, b, n, z
Keys ==
  { <<>>, <<97>>, <<97, 98>>, <<97, 98, 99>>, <<98>>, <<110>>, <<122>> }

\* The default assign_or is called with, as a value of T: 5, -1, "d", "d"
Default(T) ==
  CASE T = "int64_t" -> [type |-> T, val |-> <<0, 0, 5>>]
    [] T = "int" -> [type |-> T, val |-> -1]
    [] T = "string_view" -> [type |-> T, val |-> <<100>>]
    [] T = "variant" -> [type |-> T, val |-> <<1, <<100>>>>]

\* ------------------------------------------------------------- the machine

NoView == View(0, 0)

NoCall == [type |-> "", key |-> <<>>, value |-> <<>>]

Unset == [type |-> "", val |-> <<>>]

Init ==
  /\ input \in Inputs
  /\ pc = "tokenize"
  /\ sv = View(0, Len(input))
  /\ tokens = <<>>
  /\ toks = 0
  /\ ident = NoView
  /\ arg = IntArg(Zero64)
  /\ args = <<>>
  /\ err = ""
  /\ out = Unset
  /\ call = NoCall

\* A throw that is caught on its way: parse_args<T> goes on to convert
Throw_Swallowed(what) == pc' = "convert" /\ err' = what

\* throw: the exception leaves parse_args<T>
Throw(what) == pc' = "error" /\ err' = what

\* One turn of tokenize()'s loop that calls a tokenize_* function
Turn(r) ==
  /\ tokens' = r.tokens
  /\ IF r.throw = ""
     THEN sv' = r.sv /\ UNCHANGED <<pc, err>>
     ELSE sv' = sv /\ Throw(r.throw)
  /\ UNCHANGED <<input, toks, ident, arg, args, out, call>>

Tokenizing == pc = "tokenize" /\ ~empty(sv)

SkipWhitespaces ==
  /\ Tokenizing
  /\ isspace(front(input, sv))
  /\ Turn(skip_whitespaces(input, tokens, sv))

\* An overflow in from_chars is undefined behaviour: the call may end the
\* program, or go on with any number in the token.
TokenizeNumber ==
  /\ Tokenizing
  /\ ~isspace(front(input, sv))
  /\ isdigit(front(input, sv))
  /\ LET r == tokenize_number(input, tokens, sv)
     IN IF r.throw = "" THEN Turn(r)
        ELSE \/ Turn([r EXCEPT !.tokens = tokens])
             \/ \E n \in UBValues :
                  Turn([r EXCEPT !.throw = "",
                                 !.tokens[Len(r.tokens)].num = n])

TokenizeStringLiteral ==
  /\ Tokenizing
  /\ ~isspace(front(input, sv))
  /\ ~isdigit(front(input, sv))
  /\ front(input, sv) = 39
  /\ Turn(tokenize_string_literal(input, tokens, sv))

TokenizeIdentifier ==
  /\ Tokenizing
  /\ ~isspace(front(input, sv))
  /\ ~isdigit(front(input, sv))
  /\ front(input, sv) # 39
  /\ isident1(front(input, sv))
  /\ Turn(tokenize_identifier(input, tokens, sv))

TokenizePunct ==
  /\ Tokenizing
  /\ ~isspace(front(input, sv))
  /\ ~isdigit(front(input, sv))
  /\ front(input, sv) # 39
  /\ ~isident1(front(input, sv))
  /\ ispunct(front(input, sv))
  /\ Turn(tokenize_punct(input, tokens, sv))

UnexpectedCharacter ==
  /\ Tokenizing
  /\ ~isspace(front(input, sv))
  /\ ~isdigit(front(input, sv))
  /\ front(input, sv) # 39
  /\ ~isident1(front(input, sv))
  /\ ~ispunct(front(input, sv))
  /\ Turn(Step(tokens, sv, "unexpected character"))

\* The loop's end with the eof token pushed twice
TokenizeEof_Twice ==
  /\ pc = "tokenize"
  /\ empty(sv)
  /\ tokens' = tokens \o <<Token("eof", sv, Zero64), Token("eof", sv, Zero64)>>
  /\ pc' = "parse_args"
  /\ UNCHANGED <<input, sv, toks, ident, arg, args, err, out, call>>

\* The loop's end: the eof token, and tokenize() returns to execute()
TokenizeEof ==
  /\ pc = "tokenize"
  /\ empty(sv)
  /\ tokens' = Append(tokens, Token("eof", sv, Zero64))
  /\ pc' = "parse_args"
  /\ UNCHANGED <<input, sv, toks, ident, arg, args, err, out, call>>

\* parse_args: args = stmt?
ParseArgs ==
  /\ pc = "parse_args"
  /\ LET c == consume("eof", tokens, toks)
     IN /\ toks' = c.toks
        /\ pc' = IF c.consumed THEN "sort" ELSE "parse_ident"
  /\ UNCHANGED <<input, sv, tokens, ident, arg, args, err, out, call>>

\* parse_assign's call of parse_ident
ParseIdent ==
  /\ pc = "parse_ident"
  /\ LET r == parse_ident(input, tokens, toks, args)
     IN IF r.throw = ""
        THEN /\ toks' = r.toks
             /\ ident' = r.ident
             /\ pc' = "expect_punct"
             /\ err' = err
        ELSE /\ Throw(r.throw)
             /\ UNCHANGED <<toks, ident>>
  /\ UNCHANGED <<input, sv, tokens, arg, args, out, call>>

\* parse_assign's call of expect_punct("=")
ExpectPunct ==
  /\ pc = "expect_punct"
  /\ LET r == expect_punct(input, <<61>>, tokens, toks)
     IN IF r.throw = ""
        THEN toks' = r.toks /\ pc' = "parse_primary" /\ err' = err
        ELSE Throw(r.throw) /\ toks' = toks
  /\ UNCHANGED <<input, sv, tokens, ident, arg, args, out, call>>

\* parse_assign's call of parse_primary
ParsePrimary ==
  /\ pc = "parse_primary"
  /\ LET r == parse_primary(tokens, toks)
     IN IF r.throw = ""
        THEN /\ toks' = r.toks
             /\ arg' = r.arg
             /\ pc' = "push_back"
             /\ err' = err
        ELSE /\ Throw(r.throw)
             /\ UNCHANGED <<toks, arg>>
  /\ UNCHANGED <<input, sv, tokens, ident, args, out, call>>

\* parse_assign's args_.push_back, and its return to parse_stmt
PushBack ==
  /\ pc = "push_back"
  /\ args' = Append(args, Pair(ident, arg))
  /\ pc' = "parse_stmt"
  /\ UNCHANGED <<input, sv, tokens, toks, ident, arg, err, out, call>>

\* One turn of parse_stmt's loop: ("," assign)*
ParseStmt ==
  /\ pc = "parse_stmt"
  /\ LET c == consume_punct(input, <<44>>, tokens, toks)
     IN /\ toks' = c.toks
        /\ pc' = IF c.consumed THEN "parse_ident" ELSE "expect"
  /\ UNCHANGED <<input, sv, tokens, ident, arg, args, err, out, call>>

\* parse_args' expect(TokenKind::eof), and parse() returns to execute()
Expect ==
  /\ pc = "expect"
  /\ LET r == expect("eof", tokens, toks)
     IN IF r.throw = ""
        THEN toks' = r.toks /\ pc' = "sort" /\ err' = err
        ELSE Throw(r.throw) /\ toks' = toks
  /\ UNCHANGED <<input, sv, tokens, ident, arg, args, out, call>>

\* execute()'s std::sort; parse_args<T> then calls convert
Sort ==
  /\ pc = "sort"
  /\ args' = sort(input, args)
  /\ pc' = "convert"
  /\ UNCHANGED <<input, sv, tokens, toks, ident, arg, err, out, call>>

\* convert calls assign_or on one of its fields
AssignOr ==
  /\ pc = "convert"
  /\ \E T \in Types : \E key \in Keys :
       LET r == assign_or(input, args, Unset, T, key, Default(T))
       IN /\ call' = [type |-> T, key |-> key, value |-> Default(T)]
          /\ out' = r.out
          /\ IF r.throw = "" THEN UNCHANGED <<pc, err>> ELSE Throw(r.throw)
  /\ UNCHANGED <<input, sv, tokens, toks, ident, arg, args>>

\* convert returns, and parse_args<T> with it
Return ==
  /\ pc = "convert"
  /\ pc' = "done"
  /\ UNCHANGED <<input, sv, tokens, toks, ident, arg, args, err, out, call>>

Next ==
  \/ SkipWhitespaces
  \/ TokenizeNumber
  \/ TokenizeStringLiteral
  \/ TokenizeIdentifier
  \/ TokenizePunct
  \/ UnexpectedCharacter
  \/ TokenizeEof
  \/ ParseArgs
  \/ ParseIdent
  \/ ExpectPunct
  \/ ParsePrimary
  \/ PushBack
  \/ ParseStmt
  \/ Expect
  \/ Sort
  \/ AssignOr
  \/ Return

Spec == Init /\ [][Next]_vars

\* ------------------------------------------------- the specification's terms

\* The error taxonomy: the class of what was thrown.  Nothing the code throws
\* is a LexicalError::NumberOverflow.
ErrorKind(e) ==
  CASE e = "unexpected character" -> "LexicalError::UnexpectedCharacter"
    [] e = "unclosed string literal" -> "LexicalError::UnterminatedString"
    [] e \in { "unexpected token in namedargs::expect",
               "unexpected token in namedargs::expect_punct",
               "unexpected token; expecting TokenKind::ident",
               "unexpected token; expecting TokenKind::str or TokenKind::num" }
         -> "SyntaxError"
    [] e = "argument already exists" -> "SemanticError::DuplicateKey"
    [] e = "value is not assignable" -> "BindingError::TypeMismatch"
    [] OTHER -> e

LexicalErrors ==
  { "LexicalError::UnexpectedCharacter", "LexicalError::UnterminatedString",
    "LexicalError::NumberOverflow" }

\* The character classes of the lexical classifier, as listed
Whitespace == {9, 10, 11, 12, 13, 32}

Digit == 48..57

IdentStart == (65..90) \cup (97..122) \cup {95}

Punctuation == (33..47) \cup (58..64) \cup (91..96) \cup (123..126)

\* execute() threw: the call ended in an error that is not a binding's
ExecuteFailed == pc = "error" /\ err # "value is not assignable"

\* execute() returned: the table is final
Finalized == pc \in {"convert", "done"} \/ (pc = "error" /\ ~ExecuteFailed)

\* tokenize() has not returned
InTokenize == tokens = <<>> \/ tokens[Len(tokens)].kind # "eof"

\* What a value of the table holds
ValueOf(inp, v) ==
  IF v.index = 0 THEN <<0, v.num>> ELSE <<1, Chars(inp, v.sv)>>

\* What a table holds: its keys and values, in its order
TableOf(inp, argsq) ==
  [i \in 1..Len(argsq) |->
     <<Chars(inp, argsq[i].first), ValueOf(inp, argsq[i].second)>>]

\* The text without its p-th char
RemoveAt(inp, p) == SubSeq(inp, 1, p - 1) \o SubSeq(inp, p + 1, Len(inp))

\* Where the tokens of a text begin and end: the offsets at which a turn of
\* the tokenizer's loop starts, and the end of the text
RECURSIVE Boundaries(_, _, _)
Boundaries(inp, toksq, v) ==
  IF empty(v) THEN {v.off}
  ELSE LET r == tokenize_turn(inp, toksq, v)
       IN IF r.throw # "" THEN {v.off}
          ELSE {v.off} \cup Boundaries(inp, r.tokens, r.sv)

\* The maximal run of digits of the text from offset off on
RECURSIVE DigitRunAt(_, _)
DigitRunAt(inp, off) ==
  IF off < Len(inp) /\ inp[off + 1] \in Digit
  THEN <<inp[off + 1]>> \o DigitRunAt(inp, off + 1)
  ELSE <<>>

RECURSIVE StripZeros(_)
StripZeros(run) ==
  IF run # <<>> /\ Head(run) = 48 THEN StripZeros(Tail(run)) ELSE run

\* "9223372036854775807"
MaxRun ==
  <<57, 50, 50, 51, 51, 55, 50, 48, 51, 54, 56, 53, 52, 55, 55, 53, 56, 48, 55>>

\* a <= b, for two runs of one length
RECURSIVE RunLeq(_, _)
RunLeq(a, b) ==
  IF a = <<>> THEN TRUE
  ELSE IF Head(a) # Head(b) THEN Head(a) < Head(b)
  ELSE RunLeq(Tail(a), Tail(b))

\* The base-10 value of the run fits the 64-bit signed range
RunFits(run) ==
  LET r == StripZeros(run)
  IN Len(r) < Len(MaxRun) \/ (Len(r) = Len(MaxRun) /\ RunLeq(r, MaxRun))

\* The value of the digits of r at the places from 10^lo up to 10^hi
RECURSIVE PlaceValue(_, _, _)
PlaceValue(r, lo, hi) ==
  IF lo > hi \/ lo >= Len(r) THEN 0
  ELSE (r[Len(r) - lo] - 48) + 10 * PlaceValue(r, lo + 1, hi)

\* The base-10 value of a run that fits, as a std::int64_t
DecimalValue(run) ==
  LET r == StripZeros(run)
  IN <<PlaceValue(r, 14, 20), PlaceValue(r, 7, 13), PlaceValue(r, 0, 6)>>

\* The text ends with the chars of t
EndsWith(inp, t) ==
  Len(t) <= Len(inp) /\ SubSeq(inp, Len(inp) - Len(t) + 1, Len(inp)) = t

\* The text without its last n chars
DropLast(inp, n) == SubSeq(inp, 1, Len(inp) - n)

\* Further tokens after a statement list: a comma; a comma and a space; a
\* comma and an identifier; a space and an identifier; ",b="
FurtherTokens == Trails \ {<<>>, <<32>>}

\* The key of an assignment: its identifier, the chars before the first that
\* is neither a letter, an underscore nor a digit
RECURSIVE KeyOf(_)
KeyOf(a) ==
  IF a # <<>> /\ Head(a) \in IdentStart \cup Digit
  THEN <<Head(a)>> \o KeyOf(Tail(a))
  ELSE <<>>

\* Two assignments of the list have one key
HasDuplicateKey(list) ==
  \E i, j \in DOMAIN list : i < j /\ KeyOf(list[i]) = KeyOf(list[j])

\* The text is the list's assignments, commas between, whitespace around
IsListText(inp, list) ==
  \E lead \in Leads, trail \in {<<>>, <<32>>} :
    inp = lead \o Join(list) \o trail

RECURSIVE SkipSpaces(_)
SkipSpaces(a) ==
  IF a # <<>> /\ Head(a) \in Whitespace THEN SkipSpaces(Tail(a)) ELSE a

\* The chars of a before its first ch
RECURSIVE Before(_, _)
Before(a, ch) ==
  IF a = <<>> \/ Head(a) = ch THEN <<>> ELSE <<Head(a)>> \o Before(Tail(a), ch)

\* The chars of a after its first ch
RECURSIVE After(_, _)
After(a, ch) ==
  IF a = <<>> THEN <<>> ELSE IF Head(a) = ch THEN Tail(a) ELSE After(Tail(a), ch)

\* The value an assignment gives its key: the String between the quotes, or
\* the Integer the digits stand for
ValueIn(a) ==
  LET p == SkipSpaces(After(a, 61))
  IN IF Head(p) = 39 THEN <<1, Before(Tail(p), 39)>>
     ELSE <<0, DecimalValue(DigitRunAt(p, 0))>>

\* The Arguments of a list of assignments
ArgumentsOf(list) == {<<KeyOf(list[i]), ValueIn(list[i])>> : i \in DOMAIN list}

\* The table has the key, by a scan of all its pairs
KeyPresent(key) == \E i \in DOMAIN args : Chars(input, args[i].first) = key

\* What the table holds for a key it has
StoredValue(key) ==
  ValueOf(input,
          args[CHOOSE i \in DOMAIN args : Chars(input, args[i].first) = key].second)

\* T is assignable from the kind (0: Integer, 1: String)
Compatible(T, kind) ==
  \/ kind = 0 /\ T \in {"int64_t", "int", "variant"}
  \/ kind = 1 /\ T \in {"string_view", "variant"}

\* num / 2
Halve(num) ==
  << num[1] \div 2,
     (num[2] + (num[1] % 2) * Limb) \div 2,
     (num[3] + (num[2] % 2) * Limb) \div 2 >>

\* num / 2^k
RECURSIVE HalveTimes(_, _)
HalveTimes(num, k) == IF k = 0 THEN num ELSE HalveTimes(Halve(num), k - 1)

\* The bits 2^i .. 2^30 of num
RECURSIVE LowBits(_, _)
LowBits(num, i) ==
  IF i > 30 THEN 0 ELSE (num[3] % 2) * (2 ^ i) + LowBits(Halve(num), i + 1)

\* num modulo 2^32, read as a signed 32-bit integer
Low32Signed(num) ==
  IF HalveTimes(num, 31)[3] % 2 = 1
  THEN LowBits(num, 0) - 2147483647 - 1
  ELSE LowBits(num, 0)

\* A value of the table as T holds it after the assignment
Converted(T, v) ==
  CASE T = "int64_t" -> [type |-> T, val |-> v[2]]
    [] T = "int" -> [type |-> T, val |-> Low32Signed(v[2])]
    [] T = "string_view" -> [type |-> T, val |-> v[2]]
    [] T = "variant" -> [type |-> T, val |-> v]

\* The output holds the very value v of the table
HoldsValue(o, v) ==
  CASE o.type = "int" ->
         o.val >= 0 /\ <<0, o.val \div Limb, o.val % Limb>> = v[2]
    [] o.type = "variant" -> o.val = v
    [] OTHER -> o.val = v[2]

\* The last assign_or asked for a key the table has / has not
BoundPresent == call # NoCall /\ KeyPresent(call.key)

BoundAbsent == call # NoCall /\ ~KeyPresent(call.key)

\* tokenize is at a char of the text, one of the set
AtChar(set) == pc = "tokenize" /\ sv.len > 0 /\ input[sv.off + 1] \in set

\* No quote follows the char tokenize is at
NoLaterQuote == \A j \in (sv.off + 2)..Len(input) : input[j] # 39

\* ------------------------------------------------------------------- claims

\* C1: whitespace is insignificant.  Whenever the text is a valid text with
\* one whitespace char put in before its first token, between two tokens or
\* after its last, parse_args succeeds on it as on the valid text, with the
\* same table.
C1_WhitespaceInsignificant ==
  (ExecuteFailed \/ Finalized) =>
    \A p \in 1..Len(input) :
      LET base == RemoveAt(input, p)
      IN ( /\ input[p] \in Whitespace
           /\ execute(base).throw = ""
           /\ (p - 1) \in Boundaries(base, <<>>, View(0, Len(base))) )
         => /\ ~ExecuteFailed
            /\ TableOf(input, args) = TableOf(base, execute(base).args)

\* C2: a digit run whose value does not fit the 64-bit signed range makes
\* tokenize fail with LexicalError::NumberOverflow and gives no Number token;
\* a run that fits gives one Number token over exactly the run, holding its
\* decimal value.
C2_NumberOverflowChecked ==
  /\ \A i \in DOMAIN tokens :
       tokens[i].kind = "num" =>
         LET run == Chars(input, tokens[i].sv)
         IN /\ run = DigitRunAt(input, tokens[i].sv.off)
            /\ RunFits(run)
            /\ tokens[i].num = DecimalValue(run)
  /\ ( /\ pc = "error"
       /\ InTokenize
       /\ ~RunFits(DigitRunAt(input, sv.off)) )
     => ErrorKind(err) = "LexicalError::NumberOverflow"

\* C2, the half that holds: a Number token of a run that fits spans the run
\* and holds its value.
NumberTokensOfFittingRuns ==
  \A i \in DOMAIN tokens :
    (tokens[i].kind = "num" /\ RunFits(DigitRunAt(input, tokens[i].sv.off))) =>
      /\ Chars(input, tokens[i].sv) = DigitRunAt(input, tokens[i].sv.off)
      /\ tokens[i].num = DecimalValue(Chars(input, tokens[i].sv))

\* C3: a text that is a valid text followed by further tokens (a dangling
\* comma, with or without whitespace after it, an identifier with no '='
\* after it, also as the last thing of the text) fails with a SyntaxError, and
\* no table is produced.
C3_TrailingTokensAreSyntaxErrors ==
  \A t \in FurtherTokens :
    (EndsWith(input, t) /\ execute(DropLast(input, Len(t))).throw = "") =>
      /\ ~Finalized
      /\ pc # "sort"
      /\ pc = "error" => ErrorKind(err) = "SyntaxError"

\* C4: a text in which two assignments have the same key fails with
\* SemanticError::DuplicateKey, raised at the later of the two, wherever the
\* two stand in the list and whatever they assign.
C4_DuplicateKeyRejected ==
  (ExecuteFailed \/ Finalized \/ pc = "sort") =>
    \A list \in Lists :
      (HasDuplicateKey(list) /\ IsListText(input, list)) =>
        /\ pc = "error"
        /\ ErrorKind(err) = "SemanticError::DuplicateKey"
        /\ \E i \in DOMAIN args :
             Chars(input, args[i].first) = Chars(input, FrontTok(tokens, toks).sv)

\* C5: on a text that follows the grammar, its keys pairwise distinct, execute
\* succeeds and the table holds exactly one Argument for each assignment: the
\* identifier as its key, the Integer of the digits or the String between the
\* quotes as its value.
C5_TableHoldsTheAssignments ==
  (ExecuteFailed \/ Finalized) =>
    \A list \in Lists :
      (~HasDuplicateKey(list) /\ IsListText(input, list)) =>
        /\ ~ExecuteFailed
        /\ Len(args) = Len(list)
        /\ {TableOf(input, args)[i] : i \in DOMAIN args} = ArgumentsOf(list)

\* C6: assign_or with a key the final table does not have sets the output to
\* exactly the default it was given and raises no error, and no assign_or
\* changes the table: its keys, its values, their order.
C6_AbsentKeyYieldsDefault ==
  /\ [](BoundAbsent => (out = call.value /\ err = "" /\ pc # "error"))
  /\ [][pc = "convert" => args' = args]_vars

\* C6's case: a key asked of a table that holds others, not it
C6_Witness ==
  /\ BoundAbsent
  /\ args # <<>>
  /\ call.key # <<>>
  /\ out = call.value

\* C7 as amended: assign_or with a key the table has sets the output to the
\* stored value converted to T when T is assignable from the value's kind (an
\* Integer is reduced modulo 2^32 for an int, so the output is the stored
\* value whenever T can represent it), and fails with
\* BindingError::TypeMismatch when T is not.
C7_PresentKeyBindsConverted ==
  BoundPresent =>
    LET v == StoredValue(call.key)
    IN IF Compatible(call.type, v[1])
       THEN /\ pc # "error"
            /\ err = ""
            /\ out = Converted(call.type, v)
            /\ (call.type = "int" /\ Leq64(v[2], <<0, 214, 7483647>>))
                 => HoldsValue(out, v)
       ELSE /\ pc = "error"
            /\ ErrorKind(err) = "BindingError::TypeMismatch"

\* C7's case: an Integer above the range of int, bound to an int
C7_Witness ==
  /\ BoundPresent
  /\ call.type = "int"
  /\ StoredValue(call.key) = <<0, <<0, 429, 4967298>>>>
  /\ out = [type |-> "int", val |-> 2]

\* C7 as claimed: assign_or with a key the table has sets the output to the
\* stored value when T is assignable from the value's kind, and fails with
\* BindingError::TypeMismatch when T is not.
C7_PresentKeyBinds ==
  BoundPresent =>
    LET v == StoredValue(call.key)
    IN IF Compatible(call.type, v[1])
       THEN pc # "error" /\ err = "" /\ HoldsValue(out, v)
       ELSE pc = "error" /\ ErrorKind(err) = "BindingError::TypeMismatch"

\* C8: the empty text is valid.  When the token sequence is the EndOfFile
\* token alone, execute succeeds with an empty table and every assign_or gives
\* its default; the empty text gives that token sequence.
C8_EmptyInputIsValid ==
  /\ (tokens # <<>> /\ tokens[1].kind = "eof") =>
       /\ pc # "error"
       /\ err = ""
       /\ args = <<>>
       /\ call # NoCall => out = call.value
  /\ (input = <<>> /\ pc # "tokenize") =>
       tokens = <<Token("eof", View(0, 0), Zero64)>>

\* C8's case: an assign_or after the empty text
C8_Witness ==
  /\ input = <<>>
  /\ pc = "convert"
  /\ call # NoCall
  /\ out = call.value

\* C9: at a char that is no whitespace, digit, quote, identifier start or
\* punctuation tokenize fails with LexicalError::UnexpectedCharacter; at a
\* quote with no later quote it fails with LexicalError::UnterminatedString;
\* either way no token sequence is returned: no eof token ends it and the
\* parser never runs.
C9_LexicalErrors ==
  /\ [][AtChar(Char \ (Whitespace \cup Digit \cup {39} \cup IdentStart
                        \cup Punctuation))
          => (pc' = "error"
              /\ ErrorKind(err') = "LexicalError::UnexpectedCharacter")]_vars
  /\ [][(AtChar({39}) /\ NoLaterQuote)
          => (pc' = "error"
              /\ ErrorKind(err') = "LexicalError::UnterminatedString")]_vars
  /\ []((pc = "error" /\ ErrorKind(err) \in LexicalErrors)
          => (InTokenize /\ toks = 0 /\ args = <<>>))

\* C9's case: an unclosed literal after some tokens
C9_Witness ==
  /\ pc = "error"
  /\ err = "unclosed string literal"
  /\ tokens # <<>>

\* C10: tokenize is total.  It ends with a token sequence or with one of the
\* LexicalError outcomes and in no other way, and every turn of its loop
\* leaves less of the text than it found.
C10_TokenizeTotal ==
  /\ []((pc = "error" /\ InTokenize) => ErrorKind(err) \in LexicalErrors)
  /\ [][(pc = "tokenize" /\ pc' = "tokenize") => sv'.len < sv.len]_vars

\* C10, the half that holds: every turn of the loop that goes on leaves less of
\* the text, and what is left is the end of the text.
TokenizeShortens ==
  /\ [](pc = "tokenize" => sv.off + sv.len = Len(input))
  /\ [][(pc = "tokenize" /\ pc' = "tokenize") => sv'.len < sv.len]_vars

\* C11: no partial table is exposed on failure.  An assign_or is called only
\* after tokenize, parse and sort have all completed without error: the token
\* sequence is ended by its eof, the parser has consumed every token and the
\* table is sorted; when execute fails no assign_or is ever called, the
\* caller's output is never written, and the error ends the call.
C11_ConvertOnlyAfterExecute ==
  /\ [](call # NoCall =>
          /\ ~InTokenize
          /\ toks = Len(tokens)
          /\ args = sort(input, args)
          /\ pc \in {"convert", "done", "error"}
          /\ pc = "error" => err = "value is not assignable")
  /\ [](ExecuteFailed => (call = NoCall /\ out = Unset))
  /\ [][(call' # call \/ out' # out) => (pc = "convert" /\ err = "")]_vars
  /\ [][pc # "error"]_vars

\* C11's case: execute failed with Arguments already in the table, and no
\* assign_or was called
C11_Witness ==
  /\ ExecuteFailed
  /\ Len(args) >= 2
  /\ call = NoCall
  /\ out = Unset

\* The assignments of a list in the order p
Permuted(list, p) == [i \in DOMAIN list |-> list[p[i]]]

\* C12: parsing is deterministic and its content is order-independent.  On a
\* valid text (a list of assignments with distinct keys, whitespace around)
\* the outcome is the one the text determines, and for every other order of
\* the same assignments the text of that order is parsed too, to the same
\* finalized table.
C12_DeterministicOrderIndependent ==
  (ExecuteFailed \/ Finalized) =>
    \A list \in Lists :
      (~HasDuplicateKey(list) /\ IsListText(input, list)) =>
        /\ ExecuteFailed <=> execute(input).throw # ""
        /\ ~ExecuteFailed =>
             TableOf(input, args) = TableOf(input, execute(input).args)
        /\ \A p \in Permutations(DOMAIN list) :
             LET other == Join(Permuted(list, p))
                 e == execute(other)
             IN /\ e.throw = ""
                /\ ~ExecuteFailed
                /\ TableOf(input, args) = TableOf(other, e.args)

\* C12, the part that holds: whenever execute succeeds on a valid text, the
\* table is the one the text determines, and the one of every other order of
\* its assignments.
OrderIndependentOnSuccess ==
  Finalized =>
    \A list \in Lists :
      (~HasDuplicateKey(list) /\ IsListText(input, list)) =>
        /\ execute(input).throw = ""
        /\ TableOf(input, args) = TableOf(input, execute(input).args)
        /\ \A p \in Permutations(DOMAIN list) :
             LET other == Join(Permuted(list, p))
                 e == execute(other)
             IN e.throw = "" /\ TableOf(input, args) = TableOf(other, e.args)

\* The i-th token is the punctuator ch
IsPunct(i, ch) ==
  tokens[i].kind = "punct" /\ Chars(input, tokens[i].sv) = <<ch>>

\* The token sequence has the shape of the grammar with n assignments:
\* (IDENT '=' (STRING | NUMBER)) n times, ',' between, EOF after
ShapeOk(n) ==
  /\ Len(tokens) = 4 * n
  /\ \A j \in 0..(n - 1) :
       /\ tokens[4 * j + 1].kind = "ident"
       /\ IsPunct(4 * j + 2, 61)
       /\ tokens[4 * j + 3].kind \in {"str", "num"}
       /\ IF j = n - 1 THEN tokens[4 * j + 4].kind = "eof"
          ELSE IsPunct(4 * j + 4, 44)

\* The keys of a token sequence of that shape are pairwise distinct
KeysDistinct(n) ==
  \A i, j \in 0..(n - 1) :
    i < j => Chars(input, tokens[4 * i + 1].sv) # Chars(input, tokens[4 * j + 1].sv)

\* The token sequence is a sentence of the grammar: EOF alone, or one
\* assignment or more with distinct keys
Grammatical ==
  \/ Len(tokens) = 1 /\ tokens[1].kind = "eof"
  \/ \E n \in 1..Len(tokens) : ShapeOk(n) /\ KeysDistinct(n)

\* parse() returned
ParseSucceeded == pc \in {"sort", "convert", "done"} \/ (pc = "error" /\ ~ExecuteFailed)

\* parse() threw
ParseFailed == ExecuteFailed /\ ~InTokenize

\* C13: the parser accepts exactly the grammar.  On a token sequence tokenize
\* produced, parse succeeds only if the sequence is EOF alone or assignments
\* IDENT '=' (STRING | NUMBER) with ',' between, EOF after, keys pairwise
\* distinct, and fails only if it is not; a failure is a SyntaxError or a
\* SemanticError::DuplicateKey, the latter when only the keys are at fault.
C13_ParserAcceptsTheGrammar ==
  /\ ParseSucceeded => Grammatical
  /\ ParseFailed =>
       /\ ~Grammatical
       /\ ErrorKind(err) \in {"SyntaxError", "SemanticError::DuplicateKey"}
       /\ (\E n \in 1..Len(tokens) : ShapeOk(n))
            => ErrorKind(err) = "SemanticError::DuplicateKey"

\* C13's case: three assignments in the shape of the grammar, the third with
\* the key of the first
C13_Witness ==
  /\ ParseFailed
  /\ ShapeOk(3)
  /\ err = "argument already exists"
  /\ toks = 8

\* The parser is at work, or has thrown: args_ is not yet sorted
Parsing ==
  \/ pc \in { "parse_args", "parse_ident", "expect_punct", "parse_primary",
              "push_back", "parse_stmt", "expect", "sort" }
  \/ ParseFailed

\* The Argument of the k-th assignment of the token sequence
ArgumentAt(k) ==
  LET key == tokens[4 * k - 3]
      val == tokens[4 * k - 1]
  IN <<Chars(input, key.sv),
       IF val.kind = "num" THEN <<0, val.num>> ELSE <<1, Chars(input, val.sv)>>>>

\* C14: within one assign the identifier that is not yet a key, the '=' and
\* the primary are checked in that order, the first that is not met giving
\* the error (a key that comes again gives DuplicateKey whatever follows it),
\* and the Argument is appended only after all three: while the parser runs,
\* the table is the Arguments of the assignments it has completed, in the
\* order of the text, and the identifier in hand is no key of the table.
C14_AssignChecksInOrder ==
  /\ Parsing =>
       /\ Len(args) = IF pc = "push_back" THEN (toks - 3) \div 4
                      ELSE (toks + 1) \div 4
       /\ \A k \in DOMAIN args : TableOf(input, args)[k] = ArgumentAt(k)
  /\ pc \in {"expect_punct", "parse_primary", "push_back"} =>
       ~KeyPresent(Chars(input, ident))
  /\ ParseFailed =>
       LET t == FrontTok(tokens, toks)
       IN CASE toks % 4 = 0 /\ t.kind = "ident" ->
                 /\ ErrorKind(err) = "SemanticError::DuplicateKey"
                 /\ KeyPresent(Chars(input, t.sv))
            [] toks % 4 = 0 /\ t.kind # "ident" ->
                 err = "unexpected token; expecting TokenKind::ident"
            [] toks % 4 = 1 ->
                 /\ err = "unexpected token in namedargs::expect_punct"
                 /\ ~IsPunct(toks + 1, 61)
            [] toks % 4 = 2 ->
                 /\ err = "unexpected token; expecting TokenKind::str or TokenKind::num"
                 /\ t.kind \notin {"str", "num"}
            [] toks % 4 = 3 ->
                 /\ err = "unexpected token in namedargs::expect"
                 /\ t.kind # "eof"

\* C14's case: a key that comes again with no '=' after it
C14_Witness ==
  /\ ParseFailed
  /\ err = "argument already exists"
  /\ Len(args) = 1
  /\ ~IsPunct(toks + 2, 61)

\* a before b in byte-lexicographic order: a is a proper prefix of b, or the
\* first byte in which they differ is smaller in a
LexBefore(a, b) ==
  \/ Len(a) < Len(b) /\ SubSeq(b, 1, Len(a)) = a
  \/ \E k \in 1..Min(Len(a), Len(b)) :
       SubSeq(a, 1, k - 1) = SubSeq(b, 1, k - 1) /\ a[k] < b[k]

\* The keys of the table are strictly increasing
StrictlySorted(argsq) ==
  \A i \in 1..(Len(argsq) - 1) :
    LexBefore(Chars(input, argsq[i].first), Chars(input, argsq[i + 1].first))

\* The (key, value) pairs of a table
PairsOf(argsq) == {TableOf(input, argsq)[i] : i \in DOMAIN argsq}

\* C15: after every successful execute the table is sorted by key in
\* byte-lexicographic order, the keys strictly increasing, and the sort
\* leaves in it the very pairs parse built: as many, the same set.
C15_SortedStrictly ==
  /\ [](Finalized => StrictlySorted(args))
  /\ [][pc = "sort" =>
          /\ pc' = "convert"
          /\ Len(args') = Len(args)
          /\ PairsOf(args') = PairsOf(args)
          /\ StrictlySorted(args')]_vars

\* C15's case: three Arguments whose order in the text is not the order of
\* their keys
C15_Witness ==
  /\ pc = "convert"
  /\ Len(args) = 3
  /\ args[1].first.off > args[3].first.off
  /\ StrictlySorted(args)

\* The keys of the table
StoredKeys == {Chars(input, args[i].first) : i \in DOMAIN args}

\* The keys to ask a table for: those of Keys (the empty key among them),
\* its own, the proper prefixes of its own, its own with one more char, and
\* one below and one above every identifier: "0", "~"
QueryKeys ==
  Keys \cup StoredKeys
       \cup UNION {{SubSeq(k, 1, n) : n \in 0..(Len(k) - 1)} : k \in StoredKeys}
       \cup {k \o <<c>> : k \in StoredKeys, c \in {48, 122}}
       \cup {<<48>>, <<126>>}

\* lookup by a scan of the table from its first pair: the index of the pair
\* with the key, or none (0)
RECURSIVE Scan(_, _)
Scan(key, i) ==
  IF i > Len(args) THEN 0
  ELSE IF Chars(input, args[i].first) = key THEN i
  ELSE Scan(key, i + 1)

\* C16: on a finalized table lookup by binary search agrees with a scan, for
\* every key asked: the pair of the key when the table has it, none when it
\* has not, for keys below and above all of the table, the empty key, and
\* proper prefixes and extensions of its keys.
C16_BinarySearchAgreesWithScan ==
  Finalized =>
    \A key \in QueryKeys :
      LET it == binary_search(input, args, key)
      IN IF Scan(key, 1) = 0
         THEN it = Len(args) + 1
         ELSE /\ it = Scan(key, 1)
              /\ ValueOf(input, args[it].second) = StoredValue(key)

\* C16's case: a table of three keys asked for a proper extension of one of
\* them, and for nothing else so far
C16_Witness ==
  /\ pc = "convert"
  /\ Len(args) = 3
  /\ call.key = <<97, 98, 99>>
  /\ <<97, 98>> \in StoredKeys
  /\ out = call.value

\* The place (from 1) of the first quote after the char tokenize is at
NextQuote ==
  CHOOSE q \in (sv.off + 2)..Len(input) :
    input[q] = 39 /\ \A j \in (sv.off + 2)..(q - 1) : input[j] # 39

\* The i-th token is a String token, and the other token starts at a char of
\* its literal, the quotes included
StartsInside(i, other) ==
  /\ tokens[i].kind = "str"
  /\ other # i
  /\ tokens[other].kind # "eof"
  /\ tokens[i].sv.off - 1 <= tokens[other].sv.off
  /\ tokens[other].sv.off <= tokens[i].sv.off + tokens[i].sv.len

\* C17: at a quote that has a later quote tokenize emits one String token,
\* its span the text strictly between the quote and the next quote, and goes
\* on right after the closing quote, with no error; no token starts at a char
\* of a literal, whatever the char, and no Punctuation token is a quote.
C17_StringLiteral ==
  /\ [][(AtChar({39}) /\ ~NoLaterQuote) =>
          /\ tokens' = Append(tokens,
                         [kind |-> "str",
                          sv |-> [off |-> sv.off + 1,
                                  len |-> NextQuote - sv.off - 2],
                          num |-> Zero64])
          /\ sv' = [off |-> NextQuote, len |-> Len(input) - NextQuote]
          /\ pc' = "tokenize"
          /\ err' = ""]_vars
  /\ [](\A i \in DOMAIN tokens :
          /\ tokens[i].kind = "punct" => Chars(input, tokens[i].sv) # <<39>>
          /\ tokens[i].kind = "str" =>
               /\ input[tokens[i].sv.off] = 39
               /\ input[tokens[i].sv.off + tokens[i].sv.len + 1] = 39
               /\ \A j \in DOMAIN Chars(input, tokens[i].sv) :
                    Chars(input, tokens[i].sv)[j] # 39
          /\ \A other \in DOMAIN tokens : ~StartsInside(i, other))

\* C17's case: a literal with a letter, a comma, a space and a '=' in it,
\* and tokens after it
C17_Witness ==
  \E i \in DOMAIN tokens :
    /\ tokens[i].kind = "str"
    /\ Chars(input, tokens[i].sv) = <<97, 44, 32, 61>>
    /\ i + 1 \in DOMAIN tokens
    /\ tokens[i + 1].kind = "punct"

\* What leaves tokenize() as an exception, or ends the program in it
TokenizeThrows ==
  { "unexpected character", "unclosed string literal", "std::out_of_range",
    "undefined behaviour" }

\* tokenize() returned: it is not running and nothing left it as an exception
TokenizeReturned == pc # "tokenize" /\ ~(pc = "error" /\ err \in TokenizeThrows)

\* C18: a token sequence tokenize returns has exactly one EndOfFile token,
\* its last, whose span is the empty rest at the end of the text; the tokens
\* before it are Number, String, Identifier and Punctuation tokens in the
\* order of the text, none reaching into the next.  While tokenize runs, and
\* when it fails, the sequence has no EndOfFile token.
C18_OneEofLast ==
  /\ TokenizeReturned =>
       /\ tokens # <<>>
       /\ tokens[Len(tokens)] =
            [kind |-> "eof", sv |-> [off |-> Len(input), len |-> 0],
             num |-> Zero64]
       /\ Cardinality({i \in DOMAIN tokens : tokens[i].kind = "eof"}) = 1
  /\ ~TokenizeReturned => \A i \in DOMAIN tokens : tokens[i].kind # "eof"
  /\ \A i \in DOMAIN tokens :
       /\ tokens[i].kind \in {"num", "str", "ident", "punct", "eof"}
       /\ tokens[i].sv.off + tokens[i].sv.len <= Len(input)
       /\ i < Len(tokens) =>
            /\ tokens[i].kind # "eof"
            /\ tokens[i].sv.off < tokens[i + 1].sv.off
            /\ tokens[i].sv.off + tokens[i].sv.len <= tokens[i + 1].sv.off

\* C18's case: a returned sequence with tokens of all five kinds
C18_Witness ==
  /\ TokenizeReturned
  /\ {tokens[i].kind : i \in DOMAIN tokens} = {"num", "str", "ident", "punct", "eof"}

\* The parser is about to look at toks.front()
Inspecting ==
  pc \in { "parse_args", "parse_ident", "expect_punct", "parse_primary",
           "parse_stmt", "expect" }

\* C19: the parser's cursor stays in bounds and only moves forward.  Whenever
\* the parser looks at the current token at least one token remains; a step
\* leaves the cursor where it is or moves it by exactly one, over a token it
\* looked at; and parse returns only with the cursor just past the
\* EndOfFile token, nothing remaining.
C19_CursorInBounds ==
  /\ [](Inspecting => InBounds(tokens, toks))
  /\ [](toks <= Len(tokens))
  /\ [][/\ toks' \in {toks, toks + 1}
        /\ toks' = toks + 1 => (Inspecting /\ InBounds(tokens, toks))
        /\ Inspecting => tokens' = tokens]_vars
  /\ [](ParseSucceeded =>
          /\ toks = Len(tokens)
          /\ tokens[toks].kind = "eof")

\* C19's case: parse has returned from a sequence of twelve tokens
C19_Witness ==
  /\ pc = "sort"
  /\ Len(tokens) = 12
  /\ toks = 12

\* The place (from 1) of the first quote of the text after offset off, or 0
RECURSIVE QuoteAfter(_, _)
QuoteAfter(inp, off) ==
  IF off >= Len(inp) THEN 0
  ELSE IF inp[off + 1] = 39 THEN off + 1
  ELSE QuoteAfter(inp, off + 1)

\* The text has a lexical error at or after offset off, a token start: a
\* digit run that does not fit 64 bits, a quote with no later quote, or a
\* char of no class
RECURSIVE LexicalErrorFrom(_, _)
LexicalErrorFrom(inp, off) ==
  IF off >= Len(inp) THEN FALSE
  ELSE LET c == inp[off + 1]
       IN CASE c \in Whitespace -> LexicalErrorFrom(inp, off + 1)
            [] c \in Digit ->
                 \/ ~RunFits(DigitRunAt(inp, off))
                 \/ LexicalErrorFrom(inp, off + Len(DigitRunAt(inp, off)))
            [] c = 39 ->
                 \/ QuoteAfter(inp, off + 1) = 0
                 \/ LexicalErrorFrom(inp, QuoteAfter(inp, off + 1))
            [] c \in IdentStart ->
                 LexicalErrorFrom(inp,
                   off + Len(KeyOf(SubSeq(inp, off + 1, Len(inp)))))
            [] c \in Punctuation \ {39} -> LexicalErrorFrom(inp, off + 1)
            [] OTHER -> TRUE

\* No digit run of the text is beyond 64 bits
NoOverflowIn(inp) == \A off \in 0..Len(inp) : RunFits(DigitRunAt(inp, off))

\* C20: the phases run in order, each to its end before the next, so a
\* lexical error comes before every parse error.  On a text with a lexical
\* error anywhere the parser never starts: no token is consumed, no Argument
\* appended, no assign_or called, and the call ends in a LexicalError.
C20_LexicalErrorsFirst ==
  /\ (toks > 0 \/ args # <<>> \/ Inspecting) => TokenizeReturned
  /\ LexicalErrorFrom(input, 0) =>
       /\ toks = 0
       /\ args = <<>>
       /\ call = NoCall
       /\ pc \in {"tokenize", "error"}
       /\ pc = "error" => ErrorKind(err) \in LexicalErrors

\* C20, the part that holds: the same on the texts whose numbers all fit, and
\* the order of the phases on every text.
PhasesInOrder ==
  /\ (toks > 0 \/ args # <<>> \/ Inspecting) => TokenizeReturned
  /\ call # NoCall => (ParseSucceeded /\ pc # "sort")
  /\ (LexicalErrorFrom(input, 0) /\ NoOverflowIn(input)) =>
       /\ toks = 0
       /\ args = <<>>
       /\ call = NoCall
       /\ pc \in {"tokenize", "error"}
       /\ pc = "error" => ErrorKind(err) \in LexicalErrors

====
